---- MODULE Spec2Model ----
(***************************************************************************)
(* UnsyncLazy<T, F>: a non-thread-safe lazy cell (src/src/lib.rs).         *)
(*                                                                         *)
(* One cell is modelled together with the single thread that uses it.     *)
(* The thread's call stack is explicit, because the producer F runs in    *)
(* the middle of LazyInner::force and may call back into the same cell or *)
(* panic.  T is modelled as a small range of integers; T's Debug impl is  *)
(* the decimal rendering.                                                 *)
(***************************************************************************)
EXTENDS Integers, Sequences, FiniteSets, TLC

\* ---- bounds ----
MaxVal  == 1     \* T ranges over 0..MaxVal
MaxBody == 1     \* calls a producer makes on its own cell before it ends
MaxOps  == 3     \* operations the owner of the cell starts
MaxLoop == 3     \* the loop counters of a call stop counting here

Values == 0 .. MaxVal
NoVal  == -1     \* "no value yet" in the observation variables

VARIABLES
    given,        \* the producer the cell was constructed from
    inner,        \* the LazyInner<T, F> inside the UnsafeCell
    stack,        \* call stack of the thread, innermost frame last
    panicking,    \* a panic is unwinding the stack
    status,       \* "running" | "aborted" (panic = "abort" builds)
    panic_abort,  \* the build's panic strategy
    held,         \* the reference the owner got from its last deref/deref_mut
    calls,        \* how many times a producer has been invoked
    ev,           \* the step that led to this state
    ret,          \* the reference most recently returned by deref/deref_mut
    rendered,     \* the text most recently written by Debug::fmt
    fmt_seen,     \* the variants Debug::fmt has been run on
    nops,         \* operations started by the owner
    started,      \* deref/deref_mut calls started (owner's and producer's)
    returned,     \* deref/deref_mut calls that returned
    produced,     \* the value the producer returned
    written,      \* the value the owner last wrote through a &mut T
    start,        \* the owner's last call: which, and the cell and calls it found
    loop,         \* loop iterations and force calls of the access that last returned
    reent         \* re-entrant deref/deref_mut calls: started, panicked, returned

vars == <<given, inner, stack, panicking, status, panic_abort, held, calls, ev, ret,
          rendered, fmt_seen, nops, started, returned, produced, written, start, loop,
          reent>>

\* ---- enum LazyInner<T, F> { Init(T), Uninit(F), Empty } ----
InitV(t)   == [tag |-> "Init", t |-> t]
UninitV(f) == [tag |-> "Uninit", f |-> f]
EmptyV     == [tag |-> "Empty"]

\* ---- F: FnOnce() -> T ----
\* A producer is the list of calls it makes on its own cell (body), whether
\* it catches a panic coming out of such a call, and how it ends: by
\* panicking or by returning result.
ReentrantOps == {"deref", "deref_mut", "fmt"}
Bodies == UNION {[1 .. n -> ReentrantOps] : n \in 0 .. MaxBody}
Producers ==
    {[body |-> b, catches |-> c, panics |-> FALSE, result |-> v] :
        b \in Bodies, c \in BOOLEAN, v \in Values}
    \cup
    {[body |-> b, catches |-> c, panics |-> TRUE, result |-> 0] :
        b \in Bodies, c \in BOOLEAN}

\* ---- impl From<F> for UnsyncLazy<T, F> ----
\* variant: the producer is run at construction
from_eager(f) == InitV(f.result)
from(f) == UninitV(f)

\* ---- std::mem::replace(dest, src): dest becomes src, the old dest is returned ----
\* variant: the old value is copied out and dest is left as it was
mem_replace_keep(dest, src) == [dest |-> dest, old |-> dest]
mem_replace(dest, src) == [dest |-> src, old |-> dest]

\* ---- T's Debug: decimal digits ----
Digit(d) ==
    CASE d = 0 -> "0" [] d = 1 -> "1" [] d = 2 -> "2" [] d = 3 -> "3"
      [] d = 4 -> "4" [] d = 5 -> "5" [] d = 6 -> "6" [] d = 7 -> "7"
      [] d = 8 -> "8" [] OTHER -> "9"

RECURSIVE TDebug(_)
TDebug(t) == IF t < 10 THEN Digit(t) ELSE TDebug(t \div 10) \o Digit(t % 10)

\* ---- impl Debug for LazyInner<T, F> ----
\* variant: the two markers are exchanged
LazyInner_fmt_swapped(self) ==
    CASE self.tag = "Init"   -> TDebug(self.t)
      [] self.tag = "Uninit" -> "<empty>"
      [] self.tag = "Empty"  -> "<uninitialized>"

LazyInner_fmt(self) ==
    CASE self.tag = "Init"   -> TDebug(self.t)
      [] self.tag = "Uninit" -> "<uninitialized>"
      [] self.tag = "Empty"  -> "<empty>"

\* ---- stack helpers ----
Top            == stack[Len(stack)]
Pop            == SubSeq(stack, 1, Len(stack) - 1)
ReplaceTop(fr) == [stack EXCEPT ![Len(stack)] = fr]
Active         == status = "running" /\ ~panicking /\ stack # <<>>
Idle           == status = "running" /\ ~panicking /\ stack = <<>>

\* the frame of a call of m = "deref" / "deref_mut": it counts the iterations
\* of its loop that ended in force, fc its calls of force
Access(m) == [fn |-> m, it |-> 0, fc |-> 0]
Count(n)  == IF n < MaxLoop THEN n + 1 ELSE n

\* a deref/deref_mut frame at position i was called by the producer
IsAccess(fr)    == fr.fn \in {"deref", "deref_mut"}
Reentrant(s, i) == IsAccess(s[i]) /\ \E j \in 1 .. i - 1 : s[j].fn = "producer"
ReentrantFrames(s) == Cardinality({i \in 1 .. Len(s) : Reentrant(s, i)})

Init ==
    /\ given \in Producers
    /\ inner = from(given)
    /\ stack = <<>>
    /\ panicking = FALSE
    /\ status = "running"
    /\ panic_abort \in BOOLEAN
    /\ held = [kind |-> "none", loc |-> "none"]
    /\ calls = 0
    /\ ev = "from"
    /\ ret = [loc |-> "none", val |-> NoVal]
    /\ rendered = ""
    /\ fmt_seen = {}
    /\ nops = 0
    /\ started = 0
    /\ returned = 0
    /\ produced = NoVal
    /\ written = NoVal
    /\ reent = [started |-> 0, panicked |-> 0, returned |-> 0]
    /\ start = [m |-> "none", inner |-> inner, calls |-> 0]
    /\ loop = [it |-> 0, fc |-> 0]


\* ---- the owner of the cell ----

NoRef == [kind |-> "none", loc |-> "none"]

\* The owner calls m = "deref" (&self) or m = "deref_mut" (&mut self).  A
\* &mut T it still held ends here; a &self call leaves earlier &T alive.
Call(m) ==
    /\ Idle
    /\ nops < MaxOps
    /\ stack' = <<Access(m)>>
    /\ held' = IF m = "deref" /\ held.kind = "shared" THEN held ELSE NoRef
    /\ nops' = nops + 1
    /\ started' = started + 1
    /\ start' = [m |-> m, inner |-> inner, calls |-> calls]
    /\ ev' = "call"
    /\ UNCHANGED <<given, loop, inner, panicking, status, panic_abort, calls, ret,
                   rendered, fmt_seen, returned, produced, written, reent>>

\* The owner assigns v through the &mut T that deref_mut returned.
Write(v) ==
    /\ Idle
    /\ held.kind = "mut"
    /\ inner' = IF held.loc = "inner" THEN [inner EXCEPT !.t = v] ELSE inner
    /\ written' = v
    /\ ev' = "write"
    /\ UNCHANGED <<given, start, loop,
                   stack, panicking, status, panic_abort, held, calls, ret,
                   rendered, fmt_seen, nops, started, returned, produced, reent>>

\* ---- return t: the access on top of the stack returns the reference r ----
Return(kind, r) ==
    /\ stack' = Pop
    /\ ret' = r
    /\ held' = IF Len(stack) = 1 THEN [kind |-> kind, loc |-> r.loc] ELSE held
    /\ returned' = returned + 1
    /\ reent' = IF Reentrant(stack, Len(stack))
                  THEN [reent EXCEPT !.returned = @ + 1] ELSE reent
    /\ loop' = [it |-> Top.it + 1, fc |-> Top.fc]
    /\ ev' = "ret"
    /\ UNCHANGED <<given, start, inner, panicking, status, panic_abort, calls,
                   rendered, fmt_seen, nops, started, produced, written>>

\* ---- (*ptr).force(): the access on top of the stack calls force ----
CallForce ==
    /\ stack' = Append(ReplaceTop([Top EXCEPT !.it = Count(@), !.fc = Count(@)]),
                       [fn |-> "force", pc |-> "replace"])
    /\ ev' = "force"
    /\ UNCHANGED <<given, start, loop,
                   inner, panicking, status, panic_abort, held, calls, ret,
                   rendered, fmt_seen, nops, started, returned, produced,
                   written, reent>>

\* the reference `t` bound by `if let LazyInner::Init(ref t) = &*ptr`
\* variant: the reference is to a copy of the payload
PayloadRef_tmp(self) == [loc |-> "tmp", val |-> self.t]
PayloadRef(self) == [loc |-> "inner", val |-> self.t]

\* ---- impl Deref for UnsyncLazy<T, F>: one iteration of the loop ----
\* variant: a reference into the cell is returned without looking at the variant
deref_unchecked ==
    /\ Active
    /\ Top.fn = "deref"
    /\ Return("shared", [loc |-> "inner", val |-> NoVal])

\* variant: the call that forced the cell returns a reference to the value
\* it has just produced, held outside the cell
deref_fresh_copy ==
    /\ Active
    /\ Top.fn = "deref"
    /\ IF inner.tag = "Init"
         THEN Return("shared", [loc |-> IF Top.fc > 0 THEN "tmp" ELSE "inner",
                                val |-> inner.t])
         ELSE CallForce

deref ==
    /\ Active
    /\ Top.fn = "deref"
    /\ IF inner.tag = "Init"
         THEN Return("shared", PayloadRef(inner))
         ELSE CallForce

\* ---- impl DerefMut for UnsyncLazy<T, F>: one iteration of the loop ----
\* variant: force is called before the check, on every call
deref_mut_force_first ==
    /\ Active
    /\ Top.fn = "deref_mut"
    /\ IF inner.tag = "Init" /\ ev \in {"assign", "writeback"}
         THEN Return("mut", [loc |-> "inner", val |-> inner.t])
         ELSE CallForce

\* variant: a reference into the cell is returned without forcing it
deref_mut_unforced ==
    /\ Active
    /\ Top.fn = "deref_mut"
    /\ Return("mut", [loc |-> "inner", val |-> NoVal])

deref_mut ==
    /\ Active
    /\ Top.fn = "deref_mut"
    /\ IF inner.tag = "Init"
         THEN Return("mut", PayloadRef(inner))
         ELSE CallForce

\* ---- a frame panics; stk is the stack once that frame is left ----
Panic(stk) ==
    /\ IF panic_abort
         THEN status' = "aborted" /\ UNCHANGED <<stack, panicking>>
         ELSE panicking' = TRUE /\ stack' = stk /\ UNCHANGED status
    /\ ev' = "panic"

\* ---- LazyInner::force ----
\* mem::replace(self, LazyInner::Empty)
force_replace ==
    /\ Active
    /\ Top.fn = "force" /\ Top.pc = "replace"
    /\ LET r == mem_replace(inner, EmptyV) IN
         /\ inner' = r.dest
         /\ stack' = ReplaceTop([fn |-> "force", pc |-> "match", old |-> r.old])
    /\ ev' = "replace"
    /\ UNCHANGED <<given, start, loop,
                   panicking, status, panic_abort, held, calls, ret, rendered,
                   fmt_seen, nops, started, returned, produced, written, reent>>

\* variant: `LazyInner::Empty => LazyInner::Empty` in place of unreachable!()
force_match_silent ==
    /\ Active
    /\ Top.fn = "force" /\ Top.pc = "match"
    /\ CASE Top.old.tag = "Uninit" ->
              /\ stack' = Append(ReplaceTop([fn |-> "force", pc |-> "call"]),
                                 [fn |-> "producer", f |-> Top.old.f, ip |-> 1])
              /\ calls' = calls + 1
              /\ ev' = "invoke"
              /\ UNCHANGED inner
         [] OTHER ->
              /\ inner' = Top.old
              /\ stack' = Pop
              /\ ev' = "writeback"
              /\ UNCHANGED calls
    /\ UNCHANGED <<given, start, loop,
                   panicking, status, panic_abort, held, ret, rendered,
                   fmt_seen, nops, started, returned, produced, written, reent>>

\* variant: the arm for a swapped-out Init drops it (`_ => LazyInner::Empty`)
force_match_drop ==
    /\ Active
    /\ Top.fn = "force" /\ Top.pc = "match"
    /\ CASE Top.old.tag = "Uninit" ->
              /\ stack' = Append(ReplaceTop([fn |-> "force", pc |-> "call"]),
                                 [fn |-> "producer", f |-> Top.old.f, ip |-> 1])
              /\ calls' = calls + 1
              /\ ev' = "invoke"
         [] OTHER ->
              /\ stack' = Pop
              /\ ev' = "writeback"
              /\ UNCHANGED calls
    /\ UNCHANGED <<given, start, loop, inner, panicking, status, panic_abort,
                   held, ret, rendered, fmt_seen, nops, started, returned,
                   produced, written, reent>>

\* the match on the value swapped out
force_match ==
    /\ Active
    /\ Top.fn = "force" /\ Top.pc = "match"
    /\ CASE Top.old.tag = "Uninit" ->      \* LazyInner::Init(f())
              /\ stack' = Append(ReplaceTop([fn |-> "force", pc |-> "call"]),
                                 [fn |-> "producer", f |-> Top.old.f, ip |-> 1])
              /\ calls' = calls + 1
              /\ ev' = "invoke"
              /\ UNCHANGED <<inner, panicking, status, reent>>
         [] Top.old.tag = "Empty" ->       \* unreachable!()
              /\ Panic(Pop)
              /\ reent' = IF Reentrant(stack, Len(stack) - 1)
                            THEN [reent EXCEPT !.panicked = @ + 1] ELSE reent
              /\ UNCHANGED <<inner, calls>>
         [] Top.old.tag = "Init" ->        \* x => x
              /\ inner' = Top.old
              /\ stack' = Pop
              /\ ev' = "writeback"
              /\ UNCHANGED <<panicking, status, calls, reent>>
    /\ UNCHANGED <<given, start, loop,
                   panic_abort, held, ret, rendered, fmt_seen, nops, started,
                   returned, produced, written>>

\* variant: a fixed value is stored in place of the producer's result
force_assign_default ==
    /\ Active
    /\ Top.fn = "force" /\ Top.pc = "assign"
    /\ inner' = InitV(0)
    /\ stack' = Pop
    /\ ev' = "assign"
    /\ UNCHANGED <<given, start, loop,
                   panicking, status, panic_abort, held, calls, ret,
                   rendered, fmt_seen, nops, started, returned, produced,
                   written, reent>>

\* variant: the producer's result is dropped and nothing is written back
force_assign_lost ==
    /\ Active
    /\ Top.fn = "force" /\ Top.pc = "assign"
    /\ stack' = Pop
    /\ ev' = "assign"
    /\ UNCHANGED <<given, start, loop, inner, panicking, status, panic_abort,
                   held, calls, ret, rendered, fmt_seen, nops, started,
                   returned, produced, written, reent>>

\* *self = LazyInner::Init(v), v the producer's result
force_assign ==
    /\ Active
    /\ Top.fn = "force" /\ Top.pc = "assign"
    /\ inner' = InitV(Top.v)
    /\ stack' = Pop
    /\ ev' = "assign"
    /\ UNCHANGED <<given, start, loop,
                   panicking, status, panic_abort, held, calls, ret, rendered,
                   fmt_seen, nops, started, returned, produced, written, reent>>

\* variant: formatting dereferences the cell, which forces it
UnsyncLazy_fmt_forcing ==
    /\ inner' = IF inner.tag = "Uninit" THEN InitV(inner.f.result) ELSE inner
    /\ calls' = IF inner.tag = "Uninit" THEN calls + 1 ELSE calls
    /\ rendered' = LazyInner_fmt(inner')
    /\ fmt_seen' = fmt_seen \cup {inner.tag}
    /\ ev' = "fmt"

\* ---- impl Debug for UnsyncLazy<T, F>: (*self.inner.get()).fmt(f) ----
UnsyncLazy_fmt ==
    /\ rendered' = LazyInner_fmt(inner)
    /\ fmt_seen' = fmt_seen \cup {inner.tag}
    /\ ev' = "fmt"
    /\ UNCHANGED <<inner, calls>>

\* the owner formats the cell
Fmt ==
    /\ Idle
    /\ nops < MaxOps
    /\ UnsyncLazy_fmt
    /\ nops' = nops + 1
    /\ held' = IF held.kind = "mut" THEN NoRef ELSE held
    /\ UNCHANGED <<given, start, loop,
                   stack, panicking, status, panic_abort, ret, started,
                   returned, produced, written, reent>>

\* ---- f(): the producer runs ----
producer ==
    /\ Active
    /\ Top.fn = "producer"
    /\ LET f == Top.f
           ip == Top.ip
           next == ReplaceTop([Top EXCEPT !.ip = ip + 1])
       IN  CASE ip <= Len(f.body) /\ f.body[ip] = "fmt" ->
                  /\ UnsyncLazy_fmt
                  /\ stack' = next
                  /\ UNCHANGED <<panicking, status, started, produced, reent>>
             [] ip <= Len(f.body) /\ f.body[ip] # "fmt" ->
                  /\ stack' = Append(next, Access(f.body[ip]))
                  /\ started' = started + 1
                  /\ reent' = [reent EXCEPT !.started = @ + 1]
                  /\ ev' = "call"
                  /\ UNCHANGED <<inner, panicking, status, calls, rendered,
                                 fmt_seen, produced>>
             [] ip > Len(f.body) /\ f.panics ->
                  /\ Panic(Pop)
                  /\ UNCHANGED <<inner, calls, rendered, fmt_seen, started,
                                 produced, reent>>
             [] ip > Len(f.body) /\ ~f.panics ->
                  /\ stack' = [Pop EXCEPT ![Len(stack) - 1] =
                                  [fn |-> "force", pc |-> "assign", v |-> f.result]]
                  /\ produced' = f.result
                  /\ ev' = "produce"
                  /\ UNCHANGED <<inner, panicking, status, calls, rendered,
                                 fmt_seen, started, reent>>
    /\ UNCHANGED <<given, start, loop,
                   panic_abort, held, ret, nops, returned, written>>

\* ---- unwinding ----
\* The panic leaves one frame, or is caught by a producer that wraps its
\* calls on the cell in catch_unwind.
Unwind ==
    /\ status = "running" /\ panicking /\ stack # <<>>
    /\ IF Top.fn = "producer" /\ Top.f.catches
         THEN panicking' = FALSE /\ ev' = "caught_by_producer" /\ UNCHANGED stack
         ELSE stack' = Pop /\ ev' = "unwind" /\ UNCHANGED panicking
    /\ UNCHANGED <<given, start, loop,
                   inner, status, panic_abort, held, calls, ret, rendered,
                   fmt_seen, nops, started, returned, produced, written, reent>>

\* The panic left the operation the owner started; the owner catches it
\* (catch_unwind, or the join of a scoped thread) and still has the cell.
Catch ==
    /\ status = "running" /\ panicking /\ stack = <<>>
    /\ panicking' = FALSE
    /\ ev' = "caught"
    /\ UNCHANGED <<given, start, loop,
                   inner, stack, status, panic_abort, held, calls, ret,
                   rendered, fmt_seen, nops, started, returned, produced,
                   written, reent>>

Next ==
    \/ \E m \in {"deref", "deref_mut"} : Call(m)
    \/ \E v \in Values : Write(v)
    \/ Fmt
    \/ deref
    \/ deref_mut
    \/ force_replace
    \/ force_match
    \/ force_assign
    \/ producer
    \/ Unwind
    \/ Catch

Spec == Init /\ [][Next]_vars

\* ---- LazyInner::force on its own ----
\* force is entered directly on a cell that is Uninit or Init; an Init cell
\* is one whose producer has run and returned its payload.
ForceInit ==
    /\ given \in Producers
    /\ inner \in {from(given)} \cup {InitV(v) : v \in Values}
    /\ inner.tag = "Init" => ~given.panics /\ given.result = inner.t
    /\ stack = <<[fn |-> "force", pc |-> "replace"]>>
    /\ panicking = FALSE
    /\ status = "running"
    /\ panic_abort \in BOOLEAN
    /\ held = NoRef
    /\ calls = IF inner.tag = "Init" THEN 1 ELSE 0
    /\ ev = "force"
    /\ ret = [loc |-> "none", val |-> NoVal]
    /\ rendered = ""
    /\ fmt_seen = {}
    /\ nops = 0
    /\ started = 0
    /\ returned = 0
    /\ produced = IF inner.tag = "Init" THEN inner.t ELSE NoVal
    /\ written = NoVal
    /\ reent = [started |-> 0, panicked |-> 0, returned |-> 0]
    /\ start = [m |-> "force", inner |-> inner, calls |-> calls]
    /\ loop = [it |-> 0, fc |-> 0]

ForceSpec == ForceInit /\ [][Next]_vars

\* The thread runs whatever frame it is in to its end: there is no
\* suspension point in deref, deref_mut, force or the unwinding.
Run ==
    \/ deref
    \/ deref_mut
    \/ force_replace
    \/ force_match
    \/ force_assign
    \/ producer
    \/ Unwind
    \/ Catch

FairSpec == Spec /\ WF_vars(Run)

\* ======================= properties =======================

AtRest == status = "running" /\ ~panicking /\ stack = <<>>

\* C1: the producer has been invoked 0 times while no deref/deref_mut has
\* been called, exactly once as soon as a deref/deref_mut has returned, and
\* never twice.
C1_ProducerAtMostOnce ==
    /\ started = 0 => calls = 0
    /\ returned > 0 => calls = 1
    /\ calls <= 1

C1_Witness ==
    /\ returned >= 2
    /\ calls = 1
    /\ fmt_seen # {}

\* C2: when deref or deref_mut returns, the cell is Init and the reference
\* returned is to the payload of that Init; there is no return while the
\* cell is Uninit or Empty.
C2_ReturnsInitPayload ==
    ev = "ret" =>
        /\ inner.tag = "Init"
        /\ ret.loc = "inner"
        /\ ret.val = inner.t

C2_Witness ==
    /\ ev = "ret"
    /\ returned = 2
    /\ held.kind = "mut"

\* C3: whenever no operation on the cell is in progress the cell is Uninit
\* or Init, and the cell is Empty only inside force, between the swap-out
\* and the write-back.
C3_EmptyOnlyInsideForce ==
    /\ AtRest => inner.tag \in {"Uninit", "Init"}
    /\ inner.tag = "Empty" =>
           \E i \in 1 .. Len(stack) :
               stack[i].fn = "force" /\ stack[i].pc \in {"match", "call", "assign"}

\* C4: once the cell is Init it stays Init, and its payload changes only by
\* the owner's assignment through a &mut T; the variant never goes back to
\* Uninit, and the one way into Init is the step out of force's Empty.
C4_InitStable ==
    [][/\ inner.tag = "Init" =>
             /\ inner'.tag = "Init"
             /\ (inner'.t = inner.t \/ ev' = "write")
       /\ inner.tag = "Empty" => inner'.tag \in {"Empty", "Init"}
       /\ inner.tag = "Uninit" => inner'.tag \in {"Uninit", "Empty"}]_vars

C4_Witness ==
    /\ inner.tag = "Init"
    /\ returned >= 2
    /\ "Init" \in fmt_seen

\* C5: as long as the owner has written nothing through a &mut T, every
\* deref and deref_mut returns a reference to the value the producer
\* returned.
C5_ObservesProduced ==
    (ev = "ret" /\ written = NoVal) =>
        /\ produced = given.result
        /\ ret.val = produced

C5_Witness ==
    /\ ev = "ret"
    /\ written = NoVal
    /\ returned >= 2
    /\ ret.val = 1

\* C6: after the owner has written w through the reference deref_mut
\* returned, a later deref returns a reference to w, and the producer has
\* still run once only.
C6_WriteVisible ==
    (ev = "ret" /\ written # NoVal) =>
        /\ ret.val = written
        /\ calls = 1

C6_Witness ==
    /\ ev = "ret"
    /\ held.kind = "shared"
    /\ written # NoVal
    /\ written # produced

\* C7: Debug formatting leaves the cell's variant, its payload and the
\* number of producer invocations as they were, whichever the variant.
C7_FmtChangesNothing ==
    [][ev' = "fmt" => UNCHANGED <<inner, calls>>]_vars

C7_Witness == fmt_seen = {"Uninit", "Init", "Empty"}

\* C8: the cell from(f) builds is Uninit(f), and f has not been invoked.
C8_FromIsLazy ==
    ev = "from" =>
        /\ inner.tag = "Uninit"
        /\ inner.f = given
        /\ calls = 0
        /\ produced = NoVal

C8_Witness ==
    /\ ev = "from"
    /\ inner.tag = "Uninit"
    /\ ~given.panics
    /\ given.body # <<>>

ReentrantRunning ==
    status = "running" /\ ~panicking /\ ReentrantFrames(stack) > 0

C10_Safe ==
    /\ reent.returned = 0
    /\ calls <= 1
    /\ ReentrantRunning => inner.tag = "Empty"
    /\ (status = "running" /\ ~panicking) =>
           reent.started = reent.panicked + ReentrantFrames(stack)

C10_ReentrantAccessPanics ==
    /\ []C10_Safe
    /\ ReentrantRunning ~> (reent.panicked = reent.started)

C10_Witness ==
    /\ reent.panicked = 1
    /\ ev = "panic"
    /\ inner.tag = "Empty"

\* C11: every deref (and deref_mut) returns a reference to one and the same
\* place, the payload slot inside the cell, whether the call forced the cell
\* or found it Init, and whatever was returned before.
C11_SameStorage ==
    [][ev' = "ret" =>
          /\ ret'.loc = "inner"
          /\ (ret.loc # "none" => ret'.loc = ret.loc)]_vars

C11_Witness ==
    /\ ev = "ret"
    /\ returned >= 3
    /\ held.kind = "shared"
    /\ loop.fc = 0

\* C12: what a call by the owner leaves behind is decided by the cell it
\* found and not by whether it was deref or deref_mut: found Init, the cell
\* and the invocation count are as before; found Uninit, the producer has
\* run once more and the cell is Init of its result (or, the producer
\* having panicked, Empty).
C12_SameEffect ==
    /\ (ev = "ret" /\ stack = <<>> /\ start.inner.tag = "Init") =>
           /\ inner = start.inner
           /\ calls = start.calls
    /\ (ev = "ret" /\ stack = <<>> /\ start.inner.tag = "Uninit") =>
           /\ inner = [tag |-> "Init", t |-> start.inner.f.result]
           /\ calls = start.calls + 1
    /\ (ev = "caught" /\ start.inner.tag = "Uninit") =>
           /\ inner = [tag |-> "Empty"]
           /\ calls = start.calls + 1

C12_Witness ==
    /\ ev = "ret"
    /\ stack = <<>>
    /\ start.m = "deref_mut"
    /\ start.inner.tag = "Uninit"
    /\ inner.tag = "Init"

\* C14: a deref/deref_mut calls force at most once and returns in its
\* second iteration at the latest, in its first when it found the cell
\* Init; with a producer that returns and makes no deref/deref_mut on its
\* own cell, every call does return.
Benign ==
    /\ ~given.panics
    /\ \A i \in 1 .. Len(given.body) : given.body[i] = "fmt"

C14_LoopSafe ==
    /\ \A i \in 1 .. Len(stack) :
           IsAccess(stack[i]) => stack[i].fc <= 1 /\ stack[i].it <= 1
    /\ ev = "ret" =>
           /\ loop.fc <= 1
           /\ loop.it <= 2
           /\ loop.it = loop.fc + 1
    /\ (ev = "ret" /\ stack = <<>> /\ start.inner.tag = "Init") =>
           loop.it = 1 /\ loop.fc = 0

C14_AccessTerminates ==
    /\ []C14_LoopSafe
    /\ (Benign /\ stack # <<>>) ~> (ev = "ret" /\ stack = <<>>)

C14_Witness ==
    /\ Benign
    /\ ev = "ret"
    /\ stack = <<>>
    /\ loop = [it |-> 2, fc |-> 1]
    /\ given.body # <<>>

\* C15 as claimed: force entered on an Init cell returns at once and leaves
\* the cell alone; no step takes an Init cell to Empty.
EnteringForce ==
    stack # <<>> /\ Top.fn = "force" /\ Top.pc = "replace"

FmtByProducer == ev = "fmt" /\ stack # <<>>

C16_Safe ==
    /\ FmtByProducer =>
           /\ inner.tag = "Empty"
           /\ rendered = "<empty>"
           /\ calls = 1
    /\ (Benign /\ ev = "assign") =>
           /\ inner = [tag |-> "Init", t |-> given.result]
           /\ calls = 1

C16_FmtInsideProducer ==
    /\ []C16_Safe
    /\ (Benign /\ FmtByProducer) ~>
           (ev = "assign" /\ inner = [tag |-> "Init", t |-> given.result])

C16_Witness ==
    /\ ev = "assign"
    /\ inner.tag = "Init"
    /\ fmt_seen = {"Empty"}
    /\ rendered = "<empty>"

\* C17: deref and deref_mut never call force on an Init cell: force is
\* entered on Uninit or Empty only, the value it swaps out is never an Init,
\* and its write-back arm `x => x` is never taken.
C17_ForceNeverOnInit ==
    /\ EnteringForce => inner.tag \in {"Uninit", "Empty"}
    /\ \A i \in 1 .. Len(stack) :
           (stack[i].fn = "force" /\ stack[i].pc = "match") =>
               stack[i].old.tag # "Init"
    /\ ev # "writeback"

C17_Witness ==
    /\ EnteringForce
    /\ inner.tag = "Empty"
    /\ Top.fn = "force"
    /\ ReentrantFrames(stack) > 0

\* C18: once the producer has ended in a panic (and the panic was caught
\* further out), the cell is Empty for good: no deref/deref_mut has returned
\* or ever returns, the producer is not invoked again, formatting gives
\* "<empty>", and every later deref/deref_mut ends in the panic of
\* unreachable!().
ProducerDied ==
    /\ status = "running"
    /\ calls >= 1
    /\ produced = NoVal
    /\ \A i \in 1 .. Len(stack) : stack[i].fn # "producer"

C18_Safe ==
    /\ ProducerDied =>
           /\ inner.tag = "Empty"
           /\ calls = 1
           /\ returned = 0
    /\ (ProducerDied /\ ev = "fmt") => rendered = "<empty>"

C18_Poisoned ==
    /\ []C18_Safe
    /\ (ProducerDied /\ ~panicking /\ stack # <<>>) ~> (ev = "panic" /\ panicking)

C18_Witness ==
    /\ ProducerDied
    /\ given.panics
    /\ ev = "caught"
    /\ nops = 3
    /\ rendered = "<empty>"

====
